---- MODULE Spec2Model ----
(***************************************************************************)
(* Model of the interview agent in src/main.py: the UserData record, the   *)
(* entrypoint that builds it from the participant metadata, and the        *)
(* Assistant callbacks on_enter, on_exit, record_response, end_interview.  *)
(* The conversational engine, the room platform and the results webhook    *)
(* are the environment: they invoke the callbacks and answer the requests. *)
(***************************************************************************)
EXTENDS Integers, Sequences, FiniteSets, TLC

(* ---------------------------- bounds ----------------------------------- *)
\* most record_response tool calls in one session
MaxCalls == 3
\* most end_interview tool calls in one session
MaxEndCalls == 2

(* ------------------------- JSON values --------------------------------- *)
\* A JSON scalar as json.loads returns it: an int or a str.
JInt(n) == [ty |-> "int", n |-> n, s |-> ""]
JStr(s) == [ty |-> "str", n |-> 0, s |-> s]
\* marks a key that the metadata object does not have
Absent == [ty |-> "absent", n |-> 0, s |-> ""]

RequiredKeys == {"applicant_name", "skills", "applicant_id", "interview_invitation_id"}
OptionalKeys == {"questions_per_skill", "interview_time_limit"}
MetaKeys == RequiredKeys \cup OptionalKeys

\* the values a participant may send under each key: the right type for
\* all, a wrong type for one str field and one int field and for the limit
MetaValues(k) ==
    CASE k = "applicant_name"          -> {JStr("Ana"), JInt(0)}
      [] k = "skills"                  -> {JStr("Go,SQL")}
      [] k = "applicant_id"            -> {JInt(7), JStr("x")}
      [] k = "interview_invitation_id" -> {JInt(42)}
      [] k = "questions_per_skill"     -> {JInt(3), JInt(0)}
      [] k = "interview_time_limit"    -> {JInt(10), JStr("ten"), JInt(-1100000000)}

\* every JSON object over MetaKeys: each key absent or bound to one value
MetaObjects ==
    { [k \in {x \in MetaKeys : f[x] # Absent} |-> f[k]] :
        f \in { g \in [MetaKeys -> UNION {MetaValues(k) : k \in MetaKeys} \cup {Absent}] :
                  \A k \in MetaKeys : g[k] \in MetaValues(k) \cup {Absent} } }

\* participant.metadata after json.loads: text that is not JSON, a JSON
\* value that is not an object, or an object
NoObject == [k \in {} |-> Absent]
ParticipantMetadata ==
    {[kind |-> "invalid_json", obj |-> NoObject], [kind |-> "not_object", obj |-> NoObject]}
      \cup {[kind |-> "object", obj |-> o] : o \in MetaObjects}

NoMetadata == [kind |-> "none", obj |-> NoObject]

(* --------------------------- UserData ---------------------------------- *)
DefaultQuestionsPerSkill == 1
DefaultInterviewTimeLimit == 5

\* the session does not exist yet
NoUserData == [exists |-> FALSE]

\* a slip in the defaults: the value is taken only when both optional keys
\* are given
OptionalFieldCoupled(obj, key, default) ==
    IF OptionalKeys \subseteq DOMAIN obj THEN obj[key] ELSE JInt(default)

\* metadata[key] if key in metadata else default
OptionalField(obj, key, default) ==
    IF key \in DOMAIN obj THEN obj[key] ELSE JInt(default)

\* UserData(...) as the entrypoint calls it; the dataclass checks no types
UserData(obj) ==
    [exists                  |-> TRUE,
     applicant_name          |-> obj["applicant_name"],
     job_context             |-> "ctx",
     skills                  |-> obj["skills"],
     applicant_id            |-> obj["applicant_id"],
     interview_invitation_id |-> obj["interview_invitation_id"],
     questions_per_skill     |-> OptionalField(obj, "questions_per_skill", DefaultQuestionsPerSkill),
     interview_time_limit    |-> OptionalField(obj, "interview_time_limit", DefaultInterviewTimeLimit),
     temp_history            |-> <<>>]

\* json.loads and every metadata['...'] subscript succeed
ConstructSucceeds(md) ==
    /\ md.kind = "object"
    /\ RequiredKeys \subseteq DOMAIN md.obj

(* ----------------------------- state ----------------------------------- *)
VARIABLES
    pc,              \* position of entrypoint
    metadata,        \* json.loads(participant.metadata)
    userdata,        \* session.userdata
    started,         \* session.start was called
    enter_result,    \* on_enter: "none", "pending", "generate_reply", "returned", "raised"
    instructions,    \* generate_reply instructions given to the engine
    calls,           \* record_response tool calls the engine has made
    end_pc,          \* end_interview: "idle", "wait_for_playout", "delete_room"
    end_calls,       \* end_interview tool calls made so far
    current_speech,  \* the call in progress found a speech (line 99)
    end_deletes,     \* delete_room requests of the latest end_interview call
    end_result,      \* latest end_interview call: "none", "returned", "raised"
    delete_requests, \* delete_room requests sent to the platform
    close_reason,    \* why the session is closing: "none", "room_deleted", "disconnect"
    exit_result,     \* on_exit: "none", "returned", "raised"
    webhook          \* POST requests made by on_exit, with their outcome

vars == <<pc, metadata, userdata, started, enter_result, instructions, calls,
          end_pc, end_calls, current_speech, end_deletes, end_result,
          delete_requests, close_reason, exit_result, webhook>>

entryVars == <<pc, metadata, userdata, started>>
toolVars == <<calls, end_pc, end_calls, current_speech, end_deletes, end_result,
              delete_requests>>
exitVars == <<exit_result, webhook>>

Init ==
    /\ pc = "connect"
    /\ metadata = NoMetadata
    /\ userdata = NoUserData
    /\ started = FALSE
    /\ enter_result = "none"
    /\ instructions = <<>>
    /\ calls = <<>>
    /\ end_pc = "idle"
    /\ end_calls = 0
    /\ current_speech = FALSE
    /\ end_deletes = 0
    /\ end_result = "none"
    /\ delete_requests = 0
    /\ close_reason = "none"
    /\ exit_result = "none"
    /\ webhook = <<>>

(* --------------------------- entrypoint -------------------------------- *)
\* await ctx.connect()
Connect ==
    /\ pc = "connect"
    /\ pc' = "wait_for_participant"
    /\ UNCHANGED <<metadata, userdata, started, enter_result, instructions,
                   close_reason>>
    /\ UNCHANGED toolVars
    /\ UNCHANGED exitVars

\* participant = await ctx.wait_for_participant()
WaitForParticipant ==
    /\ pc = "wait_for_participant"
    /\ \E md \in ParticipantMetadata : metadata' = md
    /\ pc' = "construct"
    /\ UNCHANGED <<userdata, started, enter_result, instructions, close_reason>>
    /\ UNCHANGED toolVars
    /\ UNCHANGED exitVars

\* metadata = json.loads(...); userdata = UserData(...); session = AgentSession(...)
\* An exception of json.loads or of a subscript leaves entrypoint.
Construct ==
    /\ pc = "construct"
    /\ IF ConstructSucceeds(metadata)
         THEN /\ userdata' = UserData(metadata.obj)
              /\ pc' = "start"
         ELSE /\ userdata' = userdata
              /\ pc' = "aborted"
    /\ UNCHANGED <<metadata, started, enter_result, instructions, close_reason>>
    /\ UNCHANGED toolVars
    /\ UNCHANGED exitVars

\* await session.start(room=ctx.room, agent=Assistant(), ...): the agent
\* becomes active and its on_enter is scheduled
SessionStart ==
    /\ pc = "start"
    /\ pc' = "done"
    /\ started' = TRUE
    /\ enter_result' = "pending"
    /\ UNCHANGED <<metadata, userdata, instructions, close_reason>>
    /\ UNCHANGED toolVars
    /\ UNCHANGED exitVars

(* ---------------------------- on_enter --------------------------------- *)
\* timedelta keeps at most this many days, either way
TimedeltaMaxDays == 999999999
\* days from datetime.min to the first instant after datetime.max
DatetimeMaxDays == 3652059
\* datetime.now() is the clock of the host: a day, counted from datetime.min,
\* and a minute of that day. The model lets the clock stand anywhere from
\* 2026-10-30 00:00 to 2099-12-31 23:59
ClockFirstDay == 739918
ClockLastDay == 766643
\* the earliest and the latest clock: EndTimeInRange is an interval in the
\* clock, so every clock between them gives the outcome of one of the two
Clocks ==
    {[day |-> ClockFirstDay, minute |-> 0],
     [day |-> ClockLastDay, minute |-> 1439]}

\* timedelta(minutes=x) accepts a number whose days fit and raises TypeError
\* or OverflowError otherwise
TimedeltaAccepts(x) ==
    /\ x.ty = "int"
    /\ x.n \div 1440 <= TimedeltaMaxDays
    /\ x.n \div 1440 >= -TimedeltaMaxDays

\* datetime.now() + timedelta(minutes=x) is a date datetime can hold;
\* OverflowError otherwise. The sum is taken in days and minutes of the day;
\* the seconds of the clock never carry into a minute
EndTimeInRange(x, now) ==
    LET days == now.day + (x.n \div 1440) + ((now.minute + (x.n % 1440)) \div 1440)
    IN  /\ days >= 0
        /\ days < DatetimeMaxDays

\* line 43 computes end_time
EndTimeComputes(x, now) == TimedeltaAccepts(x) /\ EndTimeInRange(x, now)

\* start_time and end_time are clock readings written with this format; the
\* model keeps no more of them than that
ClockText == "%Y-%m-%d %H:%M:%S"

\* the f-string handed to generate_reply, as the fields it interpolates
Instruction(ud) ==
    [questions_per_skill  |-> ud.questions_per_skill,
     skills               |-> ud.skills,
     interview_time_limit |-> ud.interview_time_limit,
     start_time           |-> ClockText,
     end_time             |-> ClockText,
     applicant_name       |-> ud.applicant_name]

\* Assistant.on_enter up to its await: line 43 raises, or the instruction is
\* given to the engine and on_enter suspends in await generate_reply(...)
OnEnter ==
    /\ enter_result = "pending"
    /\ \E now \in Clocks :
         IF EndTimeComputes(userdata.interview_time_limit, now)
           THEN /\ instructions' = Append(instructions, Instruction(userdata))
                /\ enter_result' = "generate_reply"
           ELSE /\ instructions' = instructions
                /\ enter_result' = "raised"
    /\ UNCHANGED <<close_reason>>
    /\ UNCHANGED entryVars
    /\ UNCHANGED toolVars
    /\ UNCHANGED exitVars

\* the awaited reply completes: on_enter returns
ReplyReturns ==
    /\ enter_result = "generate_reply"
    /\ enter_result' = "returned"
    /\ UNCHANGED <<instructions, close_reason>>
    /\ UNCHANGED entryVars
    /\ UNCHANGED toolVars
    /\ UNCHANGED exitVars

\* the awaited reply raises: on_enter raises after its instruction was given
ReplyRaises ==
    /\ enter_result = "generate_reply"
    /\ enter_result' = "raised"
    /\ UNCHANGED <<instructions, close_reason>>
    /\ UNCHANGED entryVars
    /\ UNCHANGED toolVars
    /\ UNCHANGED exitVars

(* ------------------------- record_response ----------------------------- *)
Questions == {"q1"}
Responses == {"r1"}
Skills == {"Go", "SQL"}

\* the dict record_response appends
Entry(question, response, skill) ==
    [question |-> question, response |-> response, skill |-> skill]

\* a slip in the append: the new entry goes to the front (insert(0, ...))
AppendEntryFront(history, question, response, skill) ==
    <<Entry(question, response, skill)>> \o history

\* userdata.temp_history.append({...})
AppendEntry(history, question, response, skill) ==
    Append(history, Entry(question, response, skill))

\* Assistant.record_response: the tool has no guard of its own
RecordResponse(question, response, skill) ==
    /\ started
    /\ Len(calls) < MaxCalls
    /\ calls' = Append(calls, <<question, response, skill>>)
    /\ userdata' = [userdata EXCEPT
                      !.temp_history = AppendEntry(@, question, response, skill)]
    /\ UNCHANGED <<pc, metadata, started, enter_result, instructions, close_reason>>
    /\ UNCHANGED <<end_pc, end_calls, current_speech, end_deletes, end_result,
                   delete_requests>>
    /\ UNCHANGED exitVars

(* -------------------------- end_interview ------------------------------ *)
\* lines 103-113, after the wait if there was one: LiveKitAPI(...) is built
\* from the process environment and the room name is printed; when either
\* raises (reaches = FALSE) the call ends there, with no request sent and
\* nothing catching the exception. Otherwise the delete_room request goes out
\* and the tool awaits its answer. sent is the number of requests this call
\* has sent before, speech whether the call found a current speech.
RequestDeletion(sent, speech, reaches) ==
    IF reaches
      THEN /\ end_pc' = "delete_room"
           /\ end_deletes' = sent + 1
           /\ delete_requests' = delete_requests + 1
           /\ end_result' = "none"
           /\ current_speech' = speech
      ELSE /\ end_pc' = "idle"
           /\ end_deletes' = sent
           /\ delete_requests' = delete_requests
           /\ end_result' = "raised"
           /\ current_speech' = FALSE

\* the engine calls end_interview with no speech being played
EndInterviewNoSpeech(reaches) ==
    /\ started
    /\ end_pc = "idle"
    /\ end_calls < MaxEndCalls
    /\ end_calls' = end_calls + 1
    /\ RequestDeletion(0, FALSE, reaches)
    /\ UNCHANGED <<calls, close_reason, enter_result, instructions>>
    /\ UNCHANGED entryVars
    /\ UNCHANGED exitVars

\* the engine calls end_interview while a speech is being played: the tool
\* suspends in current_speech.wait_for_playout()
EndInterviewSpeech ==
    /\ started
    /\ end_pc = "idle"
    /\ end_calls < MaxEndCalls
    /\ end_calls' = end_calls + 1
    /\ current_speech' = TRUE
    /\ end_pc' = "wait_for_playout"
    /\ end_deletes' = 0
    /\ end_result' = "none"
    /\ UNCHANGED <<calls, delete_requests, close_reason, enter_result, instructions>>
    /\ UNCHANGED entryVars
    /\ UNCHANGED exitVars

\* wait_for_playout returns and the call goes on to lines 103-113
PlayoutReturns(reaches) ==
    /\ end_pc = "wait_for_playout"
    /\ RequestDeletion(end_deletes, current_speech, reaches)
    /\ UNCHANGED <<calls, end_calls, close_reason, enter_result, instructions>>
    /\ UNCHANGED entryVars
    /\ UNCHANGED exitVars

\* wait_for_playout raises: nothing in end_interview catches it
PlayoutRaises ==
    /\ end_pc = "wait_for_playout"
    /\ end_pc' = "idle"
    /\ end_result' = "raised"
    /\ current_speech' = FALSE
    /\ UNCHANGED <<calls, end_calls, end_deletes, delete_requests, close_reason,
                   enter_result, instructions>>
    /\ UNCHANGED entryVars
    /\ UNCHANGED exitVars

\* a slip in end_interview: it also delivers the transcript once the room is
\* deleted
DeleteRoomReturnsPosts ==
    /\ end_pc = "delete_room"
    /\ end_pc' = "idle"
    /\ end_result' = "returned"
    /\ current_speech' = FALSE
    /\ close_reason' = IF close_reason = "none" THEN "room_deleted" ELSE close_reason
    /\ webhook' = Append(webhook,
                         [json |-> [applicant_id            |-> userdata.applicant_id,
                                    invitation_interview_id |-> userdata.interview_invitation_id,
                                    status                  |-> "COMPLETED",
                                    transcript              |-> userdata.temp_history],
                          ok |-> TRUE])
    /\ UNCHANGED <<calls, end_calls, end_deletes, delete_requests, enter_result,
                   instructions, exit_result>>
    /\ UNCHANGED entryVars

\* delete_room returns: the platform has deleted the room, which ends the session
DeleteRoomReturns ==
    /\ end_pc = "delete_room"
    /\ end_pc' = "idle"
    /\ end_result' = "returned"
    /\ current_speech' = FALSE
    /\ close_reason' = IF close_reason = "none" THEN "room_deleted" ELSE close_reason
    /\ UNCHANGED <<calls, end_calls, end_deletes, delete_requests, enter_result,
                   instructions>>
    /\ UNCHANGED entryVars
    /\ UNCHANGED exitVars

\* delete_room raises: nothing in end_interview catches it
DeleteRoomRaises ==
    /\ end_pc = "delete_room"
    /\ end_pc' = "idle"
    /\ end_result' = "raised"
    /\ current_speech' = FALSE
    /\ UNCHANGED <<calls, end_calls, end_deletes, delete_requests, close_reason,
                   enter_result, instructions>>
    /\ UNCHANGED entryVars
    /\ UNCHANGED exitVars

(* ----------------------------- on_exit --------------------------------- *)
\* the participant leaves, the connection drops or the platform times out
Disconnect ==
    /\ started
    /\ close_reason = "none"
    /\ close_reason' = "disconnect"
    /\ UNCHANGED <<enter_result, instructions>>
    /\ UNCHANGED entryVars
    /\ UNCHANGED toolVars
    /\ UNCHANGED exitVars

\* a slip in the payload: the two identifiers are exchanged
PayloadSwapsIds(ud) ==
    [applicant_id            |-> ud.interview_invitation_id,
     invitation_interview_id |-> ud.applicant_id,
     status                  |-> "COMPLETED",
     transcript              |-> ud.temp_history]

\* the json body of the POST; requests serialises it when request() is called
Payload(ud) ==
    [applicant_id            |-> ud.applicant_id,
     invitation_interview_id |-> ud.interview_invitation_id,
     status                  |-> "COMPLETED",
     transcript              |-> ud.temp_history]

\* Assistant.on_exit, called by the framework once when the session closes.
\* It has no await: request() blocks the loop, so the handler is one step.
\* prints_ok = FALSE: a print of lines 58-59 raises inside the try, before
\* request() is reached, so no POST is made. post_ok = FALSE: request()
\* raises after the POST was attempted. Either exception is caught at line
\* 71 and printed at line 72, outside any try: log_ok = FALSE is that print
\* raising, which leaves on_exit.
OnExit(prints_ok, post_ok, log_ok) ==
    /\ close_reason # "none"
    /\ exit_result = "none"
    /\ webhook' = IF prints_ok
                    THEN Append(webhook, [json |-> Payload(userdata), ok |-> post_ok])
                    ELSE webhook
    /\ exit_result' = IF (prints_ok /\ post_ok) \/ log_ok THEN "returned" ELSE "raised"
    /\ UNCHANGED <<close_reason, enter_result, instructions>>
    /\ UNCHANGED entryVars
    /\ UNCHANGED toolVars

(* ------------------------- specification ------------------------------- *)
Next ==
    \/ Connect
    \/ WaitForParticipant
    \/ Construct
    \/ SessionStart
    \/ OnEnter
    \/ ReplyReturns
    \/ ReplyRaises
    \/ \E q \in Questions, r \in Responses, s \in Skills : RecordResponse(q, r, s)
    \/ \E reaches \in BOOLEAN : EndInterviewNoSpeech(reaches)
    \/ EndInterviewSpeech
    \/ \E reaches \in BOOLEAN : PlayoutReturns(reaches)
    \/ PlayoutRaises
    \/ DeleteRoomReturns
    \/ DeleteRoomRaises
    \/ Disconnect
    \/ \E prints_ok \in BOOLEAN, post_ok \in BOOLEAN, log_ok \in BOOLEAN :
          OnExit(prints_ok, post_ok, log_ok)

Spec == Init /\ [][Next]_vars

(* ----------------------------- claims ---------------------------------- *)
\* every required key is present with the type the interface gives it
RequiredWellFormed(md) ==
    /\ md.kind = "object"
    /\ RequiredKeys \subseteq DOMAIN md.obj
    /\ md.obj["applicant_name"].ty = "str"
    /\ md.obj["skills"].ty = "str"
    /\ md.obj["applicant_id"].ty = "int"
    /\ md.obj["interview_invitation_id"].ty = "int"

\* an optional key, when present, holds a positive integer
OptionalWellFormed(md) ==
    \A k \in OptionalKeys \cap DOMAIN md.obj : md.obj[k].ty = "int" /\ md.obj[k].n >= 1

\* the session was built from metadata that follows the interface
ValidSession ==
    userdata.exists /\ RequiredWellFormed(metadata) /\ OptionalWellFormed(metadata)

\* C1: the payload on_exit submits carries exactly the transcript as it
\* stands when on_exit starts, a payload once submitted is never changed, and
\* no record_response appends to the session transcript once on_exit has
\* begun.
C1_NoAppendAfterExit ==
    [][ ValidSession =>
          /\ Len(webhook') >= Len(webhook)
          /\ \A i \in 1..Len(webhook) : webhook'[i] = webhook[i]
          /\ \A i \in (Len(webhook) + 1)..Len(webhook') :
                webhook'[i].json.transcript = userdata.temp_history
          /\ exit_result # "none" =>
                userdata'.temp_history = userdata.temp_history ]_vars

\* C2: every finished end_interview call has sent exactly one delete_room
\* request, whether or not it waited for a speech and however the wait ended.
C2_ExactlyOneDeletion ==
    (ValidSession /\ end_calls > 0 /\ end_pc = "idle") => end_deletes = 1

\* C3: no end_interview call ends by raising to the engine.
C3_FailsSilently ==
    ValidSession => end_result # "raised"

\* C4: the transcript is the list of the record_response calls made so far,
\* in call order, each entry holding the three strings of its call.
C4_AppendOnly ==
    userdata.exists =>
      /\ Len(userdata.temp_history) = Len(calls)
      /\ \A i \in 1..Len(calls) :
            userdata.temp_history[i] =
              [question |-> calls[i][1], response |-> calls[i][2], skill |-> calls[i][3]]

\* three calls for the skills Go, SQL, Go
C4_Witness ==
    /\ userdata.exists
    /\ Len(userdata.temp_history) = 3
    /\ userdata.temp_history[1].skill = "Go"
    /\ userdata.temp_history[2].skill = "SQL"
    /\ userdata.temp_history[3].skill = "Go"

\* C5: a run of on_exit that attempts the POST makes one attempt and returns
\* normally, whether the POST succeeded or raised.
C5_ExitNeverRaises ==
    [][ (ValidSession /\ exit_result = "none" /\ exit_result' # "none"
           /\ webhook' # webhook) =>
          /\ exit_result' = "returned"
          /\ Len(webhook') = Len(webhook) + 1 ]_vars

\* C6: with a required field absent or of the wrong type the session is never
\* started, no instruction is given and no webhook request is sent.
C6_FailFast ==
    (metadata.kind # "none" /\ ~RequiredWellFormed(metadata)) =>
      /\ ~started
      /\ close_reason = "none" /\ end_calls = 0 /\ exit_result = "none"
      /\ instructions = <<>>
      /\ webhook = <<>>

\* C7: in a constructed session each optional field is the metadata value
\* when its key is present and its default (1, 5) when absent, whatever the
\* other optional key does.
C7_OptionalDefaults ==
    userdata.exists =>
      /\ "questions_per_skill" \in DOMAIN metadata.obj =>
            userdata.questions_per_skill = metadata.obj["questions_per_skill"]
      /\ "questions_per_skill" \notin DOMAIN metadata.obj =>
            userdata.questions_per_skill = JInt(1)
      /\ "interview_time_limit" \in DOMAIN metadata.obj =>
            userdata.interview_time_limit = metadata.obj["interview_time_limit"]
      /\ "interview_time_limit" \notin DOMAIN metadata.obj =>
            userdata.interview_time_limit = JInt(5)

\* valid metadata with one optional key given and the other left out
C7_Witness ==
    /\ userdata.exists
    /\ RequiredWellFormed(metadata)
    /\ "questions_per_skill" \in DOMAIN metadata.obj
    /\ "interview_time_limit" \notin DOMAIN metadata.obj
    /\ userdata.questions_per_skill = JInt(3)
    /\ userdata.interview_time_limit = JInt(5)

\* C8: the lifecycle, read off the calls of the code. The session is CREATED
\* when the UserData is built, ACTIVE when session.start is called, ENDING
\* when end_interview is called or the platform signals the close, CLOSED
\* when on_exit has ended. Every step that changes the state is one of
\* CREATED -> ACTIVE, taken only with validated metadata; ACTIVE -> ENDING,
\* taken only by an end_interview call or a close signal; ENDING -> CLOSED,
\* taken only by a run of on_exit that attempted the submission; and the
\* states come in this order, one at a time, with nothing after CLOSED.
C8_Lifecycle ==
    [][ /\ (~userdata.exists /\ userdata'.exists) => (~started /\ ~started')
        /\ (~started /\ started') =>
              /\ userdata.exists
              /\ RequiredWellFormed(metadata)
              /\ close_reason' = "none" /\ end_calls' = 0 /\ exit_result' = "none"
        /\ (close_reason = "none" /\ end_calls = 0
              /\ (close_reason' # "none" \/ end_calls' > 0)) =>
              /\ started
              /\ exit_result' = "none"
              /\ end_calls' = end_calls + 1 \/ close_reason' = "disconnect"
        /\ (exit_result = "none" /\ exit_result' # "none") =>
              /\ close_reason # "none" \/ end_calls > 0
              /\ Len(webhook') = Len(webhook) + 1
        /\ exit_result # "none" => exit_result' = exit_result ]_vars

\* C9: at most one POST is ever made, a started session whose on_exit has
\* ended has made exactly one, also when it failed, and every body has status
\* COMPLETED.
C9_ExactlyOnePost ==
    ValidSession =>
      /\ Len(webhook) <= 1
      /\ (started /\ exit_result # "none") => Len(webhook) = 1
      /\ \A i \in 1..Len(webhook) : webhook[i].json.status = "COMPLETED"

\* C10: both optional fields of a constructed session are integers >= 1.
C10_PositiveIntegers ==
    (userdata.exists /\ RequiredWellFormed(metadata)) =>
      /\ userdata.questions_per_skill.ty = "int"
      /\ userdata.questions_per_skill.n >= 1
      /\ userdata.interview_time_limit.ty = "int"
      /\ userdata.interview_time_limit.n >= 1

\* C11: a call that found a speech sends its delete_room request only in the
\* step in which the wait for playout returns, never at the call or while it
\* waits, and sends none when the wait raises; a call that found no speech
\* sends the request in the calling step itself.
C11_CooperativeEnd ==
    [][ ValidSession =>
        /\ end_pc' = "wait_for_playout" => (current_speech' /\ end_deletes' = 0)
        /\ delete_requests' # delete_requests =>
              /\ delete_requests' = delete_requests + 1
              /\ end_pc' = "delete_room"
              /\ \/ end_pc = "wait_for_playout" /\ current_speech
                 \/ end_pc = "idle" /\ end_calls' = end_calls + 1 /\ ~current_speech'
        /\ (end_calls' = end_calls + 1 /\ current_speech') =>
              (end_pc' = "wait_for_playout" /\ delete_requests' = delete_requests)
        /\ (end_calls' = end_calls + 1 /\ ~current_speech') =>
              (end_pc' = "delete_room" /\ delete_requests' = delete_requests + 1)
        /\ (end_pc = "wait_for_playout" /\ end_pc' = "idle") =>
              delete_requests' = delete_requests ]_vars

\* C12: once the session exists no step changes applicant_id,
\* interview_invitation_id, applicant_name or skills; they are the metadata
\* values, and every submitted payload carries metadata['applicant_id'] and
\* metadata['interview_invitation_id'].
C12_IdentityWriteOnce ==
    [][ /\ userdata.exists =>
              /\ userdata'.exists
              /\ userdata'.applicant_id = userdata.applicant_id
              /\ userdata'.interview_invitation_id = userdata.interview_invitation_id
              /\ userdata'.applicant_name = userdata.applicant_name
              /\ userdata'.skills = userdata.skills
        /\ userdata'.exists =>
              /\ userdata'.applicant_id = metadata'.obj["applicant_id"]
              /\ userdata'.interview_invitation_id = metadata'.obj["interview_invitation_id"]
              /\ userdata'.applicant_name = metadata'.obj["applicant_name"]
              /\ userdata'.skills = metadata'.obj["skills"]
        /\ \A i \in 1..Len(webhook') :
              /\ webhook'[i].json.applicant_id = metadata'.obj["applicant_id"]
              /\ webhook'[i].json.invitation_interview_id =
                    metadata'.obj["interview_invitation_id"] ]_vars

\* on_enter, record_response, end_interview and on_exit have all run, and the
\* payload carries the identifiers of the metadata
C12_Witness ==
    /\ ValidSession
    /\ enter_result = "returned"
    /\ Len(calls) >= 1
    /\ end_result = "returned"
    /\ exit_result = "returned"
    /\ Len(webhook) = 1
    /\ webhook[1].json.applicant_id = JInt(7)
    /\ webhook[1].json.invitation_interview_id = JInt(42)
    /\ userdata.applicant_name = JStr("Ana")
    /\ userdata.skills = JStr("Go,SQL")

\* C13: every run of on_enter gives the engine exactly one instruction: the
\* step that takes on_enter to its await adds one instruction built from
\* questions_per_skill, skills, interview_time_limit and applicant_name, the
\* step that ends on_enter adds none, and neither changes anything else: no
\* session field, no webhook request, no delete_room request.
C13_OneInstructionPerEntry ==
    [][ /\ (RequiredWellFormed(metadata) /\ enter_result = "pending"
              /\ enter_result' # "pending") =>
              /\ Len(instructions') = Len(instructions) + 1
              /\ instructions'[Len(instructions')].questions_per_skill =
                    userdata.questions_per_skill
              /\ instructions'[Len(instructions')].skills = userdata.skills
              /\ instructions'[Len(instructions')].interview_time_limit =
                    userdata.interview_time_limit
              /\ instructions'[Len(instructions')].applicant_name =
                    userdata.applicant_name
              /\ userdata' = userdata
              /\ webhook' = webhook
              /\ delete_requests' = delete_requests
        /\ (enter_result = "generate_reply" /\ enter_result' # "generate_reply") =>
              /\ instructions' = instructions
              /\ userdata' = userdata
              /\ webhook' = webhook
              /\ delete_requests' = delete_requests ]_vars

\* C14: only the step of on_exit sends a webhook request; the steps of
\* end_interview leave the webhook and the session record alone, a
\* record_response step sends no request of any kind, and as long as on_exit
\* has not run no webhook request has been made.
C14_DeliveryOnlyInExit ==
    [][ /\ webhook' # webhook => (exit_result = "none" /\ exit_result' # "none")
        /\ (end_pc' # end_pc \/ end_calls' # end_calls) =>
              (webhook' = webhook /\ userdata' = userdata)
        /\ calls' # calls =>
              /\ webhook' = webhook
              /\ delete_requests' = delete_requests
              /\ instructions' = instructions
        /\ exit_result' = "none" => webhook' = <<>> ]_vars

\* end_interview has run, once to success and once to failure, after a
\* record was made; on_exit has not run and nothing was sent to the webhook
C14_Witness ==
    /\ ValidSession
    /\ Len(userdata.temp_history) >= 1
    /\ end_calls = 2
    /\ end_pc = "idle"
    /\ end_result = "raised"
    /\ close_reason = "room_deleted"
    /\ exit_result = "none"
    /\ webhook = <<>>
====
